---------------------------- MODULE Spec2Model ----------------------------
(***************************************************************************)
(* The benchmark runner of best-test-request (src/runner.py): the loop of  *)
(* main() over the variant list, one server/tester pairing at a time.      *)
(*                                                                         *)
(* Time is counted in ticks of one polling interval (0.1 s, the argument   *)
(* of tester_proc.wait(0.1)).  The orchestrator's statements take no time; *)
(* time passes only while it sleeps inside a Subtask wait.  The spawned    *)
(* processes run on their own: they come up and exit between any two       *)
(* steps of the orchestrator.                                              *)
(*                                                                         *)
(* The Subtask class is imported from the subtask package, which is not    *)
(* part of src/: its operations are modelled from the Process Handle       *)
(* section of the specification.                                           *)
(***************************************************************************)
EXTENDS Integers, Sequences, FiniteSets

\* ------------------------------------------------------------ constants

\* Test timeout duration, in seconds
TEST_TIMEOUT == 120

\* Polling intervals per second: tester_proc.wait(0.1)
PollsPerSecond == 10

\* The grace period of server_proc.wait(1), in seconds
ServerGrace == 1

TimeoutTicks == TEST_TIMEOUT * PollsPerSecond

GraceTicks == ServerGrace * PollsPerSecond

\* ---------------------------------------------------------------- bounds

\* Pairings in the variant list
NumVariants == 2

\* Ticks modelled of a wait that has no upper bound
MaxIdleTicks == 2

\* A tester that exits on its own does so within this many ticks of its
\* start or of the timeout (a tester that was interrupted exits at any time)
ExitWindow == 2

\* ----------------------------------------------------------------- state

VARIABLES
    progress,     \* "--progress" in sys.argv
    vi,           \* index of the variant the for loop is at
    pc,           \* the line of main() the orchestrator is at
    server_proc,  \* the Subtask bound to server_proc
    tester_proc,  \* the Subtask bound to tester_proc
    now,          \* perf_counter(), in ticks
    start_time,
    duration,
    timeout,
    deadline,     \* of the Subtask.wait in progress: <<tick>>, or <<>> for none
    slept,        \* ticks slept in the blocking call in progress
    ret,          \* what the last wait()/poll() returned: <<code>>, or <<>> for None
    rows,         \* result rows printed to stdout
    outcome,      \* the row printed for the pairing in flight
    raised,       \* the exception that left main()
    log,          \* the pairing's events, in order
    orphans       \* processes of earlier pairings, no longer referenced, still running

vars == <<progress, vi, pc, server_proc, tester_proc, now, start_time, duration,
          timeout, deadline, slept, ret, rows, outcome, raised, log, orphans>>

None == <<>>

ExitCodes == {0, 1}

NoProc == [state |-> "none", code |-> 0, up |-> FALSE,
           interrupts |-> 0, kills |-> 0, exitAt |-> 0]

NoRow == [kind |-> "none", dur |-> None]

\* ------------------------------------------------- Subtask (process handle)

\* Subtask(cmd, env=...): the process is launched at once
Spawned == [state |-> "running", code |-> 0, up |-> FALSE,
            interrupts |-> 0, kills |-> 0, exitAt |-> 0]

\* Subtask.poll(): the exit status if the process has terminated, else None
Poll(p) == IF p.state = "exited" THEN <<p.code>> ELSE None

\* Subtask.interrupt(): the graceful signal; does not wait; no-op when dead
Interrupt(p) == [p EXCEPT !.interrupts = @ + 1]

\* Subtask.kill(): the forced signal, which the process cannot catch
Kill(p) ==
    IF p.state = "running"
    THEN [p EXCEPT !.state = "exited", !.code = -9, !.up = FALSE,
                   !.kills = @ + 1]
    ELSE [p EXCEPT !.kills = @ + 1]

\* server_is_up(): a request to 127.0.0.1:5001 is answered
server_is_up == server_proc.state = "running" /\ server_proc.up


\* ---------------------------------------------------------------- helpers

Event(e) == log' = Append(log, e)

Row(kind, dur) == [kind |-> kind, dur |-> dur]

\* print_output(server, tester, ...) to stdout: one result row
print_output(kind, dur) ==
    /\ rows' = rows + 1
    /\ outcome' = Row(kind, dur)

\* the labels at which the orchestrator is inside Subtask.wait
WaitPcs == {"L242w", "L259w", "L265w", "L273w"}

\* where each wait returns to
WaitReturn(l) ==
    CASE l = "L242w" -> "L242r"
      [] l = "L259w" -> "L259r"
      [] l = "L265w" -> "L266"
      [] l = "L273w" -> "L273r"

\* Waited with every wait on the server's handle
Waited_Server(l) == server_proc

\* the handle a wait is on
Waited(l) == IF l = "L265w" THEN server_proc ELSE tester_proc

\* -------------------------------------------------------- the environment

\* the server starts to answer on 127.0.0.1:5001
ServerUp ==
    /\ server_proc.state = "running"
    /\ ~server_proc.up
    /\ server_proc' = [server_proc EXCEPT !.up = TRUE]
    /\ UNCHANGED <<progress, vi, pc, tester_proc, now, start_time, duration,
                   timeout, deadline, slept, ret, rows, outcome, raised, log,
                   orphans>>

\* the server process exits, on its own or as its answer to the interrupt
ServerExit ==
    /\ server_proc.state = "running"
    /\ server_proc' = [server_proc EXCEPT !.state = "exited", !.code = 0,
                                          !.up = FALSE]
    /\ UNCHANGED <<progress, vi, pc, tester_proc, now, start_time, duration,
                   timeout, deadline, slept, ret, rows, outcome, raised, log,
                   orphans>>

\* the tester process exits, on its own or as its answer to the interrupt;
\* exitAt keeps the tick of the exit
TesterExit ==
    /\ tester_proc.state = "running"
    /\ \/ tester_proc.interrupts > 0
       \/ now - start_time <= ExitWindow
       \/ now - start_time >= TimeoutTicks - ExitWindow
    /\ \E c \in ExitCodes :
          tester_proc' = [tester_proc EXCEPT !.state = "exited", !.code = c,
                                             !.exitAt = now]
    /\ UNCHANGED <<progress, vi, pc, server_proc, now, start_time, duration,
                   timeout, deadline, slept, ret, rows, outcome, raised, log,
                   orphans>>

\* a process no pairing refers to any more exits
OrphanExit ==
    /\ orphans > 0
    /\ orphans' = orphans - 1
    /\ UNCHANGED <<progress, vi, pc, server_proc, tester_proc, now, start_time,
                   duration, timeout, deadline, slept, ret, rows, outcome,
                   raised, log>>

\* the operator interrupts the run: "Aborted" is printed and the exception
\* re-raised, which ends the program
KeyboardInterrupt ==
    /\ pc \notin {"done", "aborted"}
    /\ pc' = "aborted"
    /\ raised' = "KeyboardInterrupt"
    /\ now' = 0 /\ start_time' = 0 /\ duration' = 0 /\ timeout' = FALSE
    /\ deadline' = None /\ slept' = 0 /\ ret' = None
    /\ UNCHANGED <<progress, vi, server_proc, tester_proc, rows, outcome, log,
                   orphans>>

\* ------------------------------------------------------- the orchestrator

\* for variant in variants: the next pairing, or the end of main().  The
\* locals a pairing assigns before it reads them start from their initial
\* values, and the clock, of which only differences are read, from 0.
ForNext ==
    /\ pc = "L232"
    /\ IF vi < NumVariants
       THEN /\ vi' = vi + 1
            /\ pc' = "L234"
            /\ now' = 0 /\ start_time' = 0 /\ duration' = 0 /\ timeout' = FALSE
            /\ deadline' = None /\ slept' = 0 /\ ret' = None
            /\ outcome' = NoRow
            /\ log' = <<>>
       ELSE /\ pc' = "done"
            /\ UNCHANGED <<vi, now, start_time, duration, timeout, deadline,
                           slept, ret, outcome, log>>
    /\ UNCHANGED <<progress, server_proc, tester_proc, rows, raised, orphans>>

\* server_proc = server(): the Subtask constructor launches the process
ServerSpawn ==
    /\ pc = "L234"
    /\ server_proc' = Spawned
    /\ orphans' = orphans + (IF server_proc.state = "running" THEN 1 ELSE 0)
    /\ slept' = 0
    /\ pc' = "L234w"
    /\ Event("server_start")
    /\ UNCHANGED <<progress, vi, tester_proc, now, start_time, duration,
                   timeout, deadline, ret, rows, outcome, raised>>

\* server_proc = server(): the launch fails, and the exception leaves main()
ServerSpawnFails ==
    /\ pc = "L234"
    /\ pc' = "aborted"
    /\ raised' = "SpawnFailure"
    /\ UNCHANGED <<progress, vi, server_proc, tester_proc, now, start_time,
                   duration, timeout, deadline, slept, ret, rows, outcome,
                   log, orphans>>

\* the constructor's readiness loop: wait_for=server_is_up is polled every
\* interval, with no upper bound, and the constructor returns once it holds
ReadinessPoll ==
    /\ pc = "L234w"
    /\ IF server_is_up
       THEN /\ pc' = "L236"
            /\ Event("server_ready")
            /\ UNCHANGED <<now, slept>>
       ELSE /\ slept < MaxIdleTicks
            /\ now' = now + 1
            /\ slept' = slept + 1
            /\ UNCHANGED <<pc, log>>
    /\ UNCHANGED <<progress, vi, server_proc, tester_proc, start_time,
                   duration, timeout, deadline, ret, rows, outcome, raised,
                   orphans>>

\* StartTimer with the clock read at the head of the loop, before server()
StartTimer_Early ==
    /\ pc = "L236"
    /\ start_time' = 0
    /\ pc' = "L237"
    /\ UNCHANGED <<progress, vi, server_proc, tester_proc, now, duration,
                   timeout, deadline, slept, ret, rows, outcome, raised, log,
                   orphans>>

\* start_time = perf_counter()
StartTimer ==
    /\ pc = "L236"
    /\ start_time' = now
    /\ pc' = "L237"
    /\ UNCHANGED <<progress, vi, server_proc, tester_proc, now, duration,
                   timeout, deadline, slept, ret, rows, outcome, raised, log,
                   orphans>>

\* tester_proc = tester()
TesterSpawn ==
    /\ pc = "L237"
    /\ tester_proc' = Spawned
    /\ orphans' = orphans + (IF tester_proc.state = "running" THEN 1 ELSE 0)
    /\ pc' = "L239"
    /\ Event("tester_start")
    /\ UNCHANGED <<progress, vi, server_proc, now, start_time, duration,
                   timeout, deadline, slept, ret, rows, outcome, raised>>

\* tester_proc = tester(): the launch fails, and the exception leaves main()
TesterSpawnFails ==
    /\ pc = "L237"
    /\ pc' = "aborted"
    /\ raised' = "SpawnFailure"
    /\ UNCHANGED <<progress, vi, server_proc, tester_proc, now, start_time,
                   duration, timeout, deadline, slept, ret, rows, outcome,
                   log, orphans>>

\* timeout = False; if "--progress" in sys.argv
ChooseMode ==
    /\ pc = "L239"
    /\ timeout' = FALSE
    /\ pc' = IF progress THEN "L242" ELSE "L259"
    /\ UNCHANGED <<progress, vi, server_proc, tester_proc, now, start_time,
                   duration, deadline, slept, ret, rows, outcome, raised, log,
                   orphans>>

\* Subtask.wait(timeout), one turn of its poll loop: the exit status if the
\* process has terminated, None once the timeout has elapsed, else a sleep
\* of one polling interval
WaitStep ==
    /\ pc \in WaitPcs
    /\ IF Waited(pc).state = "exited"
       THEN /\ ret' = <<Waited(pc).code>>
            /\ pc' = WaitReturn(pc)
            /\ UNCHANGED <<now, slept>>
       ELSE IF deadline # None /\ now >= deadline[1]
       THEN /\ ret' = None
            /\ pc' = WaitReturn(pc)
            /\ UNCHANGED <<now, slept>>
       ELSE /\ deadline = None => slept < MaxIdleTicks
            /\ now' = now + 1
            /\ slept' = slept + 1
            /\ UNCHANGED <<pc, ret>>
    /\ UNCHANGED <<progress, vi, server_proc, tester_proc, start_time,
                   duration, timeout, deadline, rows, outcome, raised, log,
                   orphans>>

\* ProgressWait with a poll of one second: tester_proc.wait(1)
ProgressWait_LongPoll ==
    /\ pc = "L242"
    /\ deadline' = <<now + GraceTicks>>
    /\ slept' = 0
    /\ pc' = "L242w"
    /\ UNCHANGED <<progress, vi, server_proc, tester_proc, now, start_time,
                   duration, timeout, ret, rows, outcome, raised, log,
                   orphans>>

\* while tester_proc.wait(0.1) ...: the call
ProgressWait ==
    /\ pc = "L242"
    /\ deadline' = <<now + 1>>
    /\ slept' = 0
    /\ pc' = "L242w"
    /\ UNCHANGED <<progress, vi, server_proc, tester_proc, now, start_time,
                   duration, timeout, ret, rows, outcome, raised, log,
                   orphans>>

\* ProgressTest with the loop left only by the timeout's break
ProgressTest_Ignore ==
    /\ pc = "L242r"
    /\ pc' = "L243"
    /\ UNCHANGED <<progress, vi, server_proc, tester_proc, now, start_time,
                   duration, timeout, deadline, slept, ret, rows, outcome,
                   raised, log, orphans>>

\* while ... is None: the loop ends when the wait returned an exit status
ProgressTest ==
    /\ pc = "L242r"
    /\ IF ret = None
       THEN pc' = "L243" /\ UNCHANGED log
       ELSE pc' = "L263" /\ Event("tester_done")
    /\ UNCHANGED <<progress, vi, server_proc, tester_proc, now, start_time,
                   duration, timeout, deadline, slept, ret, rows, outcome,
                   raised, orphans>>

\* duration = perf_counter() - start_time
ProgressElapsed ==
    /\ pc = "L243"
    /\ duration' = now - start_time
    /\ pc' = "L245"
    /\ UNCHANGED <<progress, vi, server_proc, tester_proc, now, start_time,
                   timeout, deadline, slept, ret, rows, outcome, raised, log,
                   orphans>>

\* ProgressCheck with the comparison turned round
ProgressCheck_Reversed ==
    /\ pc = "L245"
    /\ pc' = IF duration < TimeoutTicks THEN "L246" ELSE "L242"
    /\ UNCHANGED <<progress, vi, server_proc, tester_proc, now, start_time,
                   duration, timeout, deadline, slept, ret, rows, outcome,
                   raised, log, orphans>>

\* if duration > TEST_TIMEOUT; else the progress line goes to stderr
ProgressCheck ==
    /\ pc = "L245"
    /\ pc' = IF duration > TimeoutTicks THEN "L246" ELSE "L242"
    /\ UNCHANGED <<progress, vi, server_proc, tester_proc, now, start_time,
                   duration, timeout, deadline, slept, ret, rows, outcome,
                   raised, log, orphans>>

\* tester_proc.interrupt(); timeout = True; break
ProgressTimeout ==
    /\ pc = "L246"
    /\ tester_proc' = Interrupt(tester_proc)
    /\ timeout' = TRUE
    /\ pc' = "L263"
    /\ Event("tester_timeout")
    /\ UNCHANGED <<progress, vi, server_proc, now, start_time, duration,
                   deadline, slept, ret, rows, outcome, raised, orphans>>

\* if tester_proc.wait(TEST_TIMEOUT) ...: the call
SilentWait ==
    /\ pc = "L259"
    /\ deadline' = <<now + TimeoutTicks>>
    /\ slept' = 0
    /\ pc' = "L259w"
    /\ UNCHANGED <<progress, vi, server_proc, tester_proc, now, start_time,
                   duration, timeout, ret, rows, outcome, raised, log,
                   orphans>>

\* if ... != 0
SilentTest ==
    /\ pc = "L259r"
    /\ IF ret # <<0>>
       THEN pc' = "L260" /\ UNCHANGED log
       ELSE pc' = "L263" /\ Event("tester_done")
    /\ UNCHANGED <<progress, vi, server_proc, tester_proc, now, start_time,
                   duration, timeout, deadline, slept, ret, rows, outcome,
                   raised, orphans>>

\* SilentPoll without the poll(): any result but 0 counts as a timeout
SilentPoll_NoPoll ==
    /\ pc = "L260"
    /\ pc' = "L261"
    /\ UNCHANGED <<progress, vi, server_proc, tester_proc, now, start_time,
                   duration, timeout, deadline, slept, ret, rows, outcome,
                   raised, log, orphans>>

\* if tester_proc.poll() is None
SilentPoll ==
    /\ pc = "L260"
    /\ ret' = Poll(tester_proc)
    /\ IF Poll(tester_proc) = None
       THEN pc' = "L261" /\ UNCHANGED log
       ELSE pc' = "L263" /\ Event("tester_done")
    /\ UNCHANGED <<progress, vi, server_proc, tester_proc, now, start_time,
                   duration, timeout, deadline, slept, rows, outcome, raised,
                   orphans>>

\* tester_proc.interrupt(); timeout = True
SilentTimeout ==
    /\ pc = "L261"
    /\ tester_proc' = Interrupt(tester_proc)
    /\ timeout' = TRUE
    /\ pc' = "L263"
    /\ Event("tester_timeout")
    /\ UNCHANGED <<progress, vi, server_proc, now, start_time, duration,
                   deadline, slept, ret, rows, outcome, raised, orphans>>

\* duration = perf_counter() - start_time
FinalElapsed ==
    /\ pc = "L263"
    /\ duration' = now - start_time
    /\ pc' = "L264"
    /\ UNCHANGED <<progress, vi, server_proc, tester_proc, now, start_time,
                   timeout, deadline, slept, ret, rows, outcome, raised, log,
                   orphans>>

\* ServerInterrupt with interrupt() sent to the tester's handle
ServerInterrupt_Tester ==
    /\ pc = "L264"
    /\ tester_proc' = Interrupt(tester_proc)
    /\ pc' = "L265"
    /\ Event("server_interrupt")
    /\ UNCHANGED <<progress, vi, server_proc, now, start_time, duration,
                   timeout, deadline, slept, ret, rows, outcome, raised,
                   orphans>>

\* ServerInterrupt with kill() called in the place of interrupt()
ServerInterrupt_Kill ==
    /\ pc = "L264"
    /\ server_proc' = Kill(server_proc)
    /\ pc' = "L265"
    /\ Event("server_kill")
    /\ UNCHANGED <<progress, vi, tester_proc, now, start_time, duration,
                   timeout, deadline, slept, ret, rows, outcome, raised,
                   orphans>>

\* server_proc.interrupt()
ServerInterrupt ==
    /\ pc = "L264"
    /\ server_proc' = Interrupt(server_proc)
    /\ pc' = "L265"
    /\ Event("server_interrupt")
    /\ UNCHANGED <<progress, vi, tester_proc, now, start_time, duration,
                   timeout, deadline, slept, ret, rows, outcome, raised,
                   orphans>>

\* ServerWait with the timeout left out: server_proc.wait()
ServerWait_Untimed ==
    /\ pc = "L265"
    /\ deadline' = None
    /\ slept' = 0
    /\ pc' = "L265w"
    /\ Event("server_wait")
    /\ UNCHANGED <<progress, vi, server_proc, tester_proc, now, start_time,
                   duration, timeout, ret, rows, outcome, raised, orphans>>

\* server_proc.wait(1): the call
ServerWait ==
    /\ pc = "L265"
    /\ deadline' = <<now + GraceTicks>>
    /\ slept' = 0
    /\ pc' = "L265w"
    /\ Event("server_wait")
    /\ UNCHANGED <<progress, vi, server_proc, tester_proc, now, start_time,
                   duration, timeout, ret, rows, outcome, raised, orphans>>

\* server_proc.kill()
ServerKill ==
    /\ pc = "L266"
    /\ server_proc' = Kill(server_proc)
    /\ pc' = "L267"
    /\ Event("server_kill")
    /\ UNCHANGED <<progress, vi, tester_proc, now, start_time, duration,
                   timeout, deadline, slept, ret, rows, outcome, raised,
                   orphans>>

\* ReportTimeout with the final wait() also made on a tester that timed out
ReportTimeout_AlwaysWait ==
    /\ pc = "L267"
    /\ pc' = "L273"
    /\ UNCHANGED <<progress, vi, server_proc, tester_proc, now, start_time,
                   duration, timeout, deadline, slept, ret, rows, outcome,
                   raised, log, orphans>>

\* if timeout: print_output(server, tester, f"Timeout ({TEST_TIMEOUT} s)")
ReportTimeout ==
    /\ pc = "L267"
    /\ IF timeout
       THEN /\ print_output("Timeout", None)
            /\ pc' = "L232"
            /\ Event("row")
       ELSE /\ pc' = "L273"
            /\ UNCHANGED <<rows, outcome, log>>
    /\ UNCHANGED <<progress, vi, server_proc, tester_proc, now, start_time,
                   duration, timeout, deadline, slept, ret, raised, orphans>>

\* elif tester_proc.wait() ...: the call, with no timeout
FinalWait ==
    /\ pc = "L273"
    /\ deadline' = None
    /\ slept' = 0
    /\ pc' = "L273w"
    /\ Event("tester_reap")
    /\ UNCHANGED <<progress, vi, server_proc, tester_proc, now, start_time,
                   duration, timeout, ret, rows, outcome, raised, orphans>>

\* elif ... != 0: print_output(..., "Error"); else: print_output(..., duration)
ReportExit ==
    /\ pc = "L273r"
    /\ IF ret # <<0>>
       THEN print_output("Error", None)
       ELSE print_output("Success", <<duration>>)
    /\ pc' = "L232"
    /\ Event("row")
    /\ UNCHANGED <<progress, vi, server_proc, tester_proc, now, start_time,
                   duration, timeout, deadline, slept, ret, raised, orphans>>

\* ------------------------------------------------------ the specification

Init ==
    /\ progress \in BOOLEAN
    /\ vi = 0
    /\ pc = "L232"
    /\ server_proc = NoProc
    /\ tester_proc = NoProc
    /\ now = 0
    /\ start_time = 0
    /\ duration = 0
    /\ timeout = FALSE
    /\ deadline = None
    /\ slept = 0
    /\ ret = None
    /\ rows = 0
    /\ outcome = NoRow
    /\ raised = "none"
    /\ log = <<>>
    /\ orphans = 0

\* the steps of main()
Orchestrator ==
    \/ ForNext
    \/ ServerSpawn
    \/ ServerSpawnFails
    \/ ReadinessPoll
    \/ StartTimer
    \/ TesterSpawn
    \/ TesterSpawnFails
    \/ ChooseMode
    \/ WaitStep
    \/ ProgressWait
    \/ ProgressTest
    \/ ProgressElapsed
    \/ ProgressCheck
    \/ ProgressTimeout
    \/ SilentWait
    \/ SilentTest
    \/ SilentPoll
    \/ SilentTimeout
    \/ FinalElapsed
    \/ ServerInterrupt
    \/ ServerWait
    \/ ServerKill
    \/ ReportTimeout
    \/ FinalWait
    \/ ReportExit

\* what happens outside main()
Environment ==
    \/ ServerUp
    \/ ServerExit
    \/ TesterExit
    \/ OrphanExit
    \/ KeyboardInterrupt

Next == Orchestrator \/ Environment

Spec == Init /\ [][Next]_vars

\* the interpreter runs main() whenever it can take a step
FairSpec == Spec /\ WF_vars(Orchestrator)


\* ------------------------------------------------------------- properties

HasEvent(e) == \E i \in 1..Len(log) : log[i] = e

\* every b in the log has an a before it
Before(a, b) ==
    \A j \in 1..Len(log) : log[j] = b => \E i \in 1..(j - 1) : log[i] = a

\* no event is in the log twice
Once == \A i, j \in 1..Len(log) : log[i] = log[j] => i = j

\* the row of the pairing in flight has just been printed
PairingDone == pc = "L232" /\ outcome.kind # "none"

\* tester_proc is the tester of the pairing in flight
TesterLive == pc # "aborted" /\ HasEvent("tester_start")

\* the tick, counted from start_time, at which the tester exited
ExitElapsed == tester_proc.exitAt - start_time

\* the tester ran for longer than the timeout
RanPastTimeout ==
    \/ tester_proc.state = "running"
    \/ tester_proc.state = "exited" /\ ExitElapsed > TimeoutTicks

\* the tester exited with code c before the timeout
ExitedBefore(c) ==
    /\ tester_proc.state = "exited"
    /\ tester_proc.code = c
    /\ ExitElapsed < TimeoutTicks

\* C1: in both wait modes, a tester that runs longer than the timeout yields
\* the outcome Timeout, whatever it does after the timeout: also when it
\* exits after the timed wait has returned None and before the poll().
C1_Claim ==
    /\ []((PairingDone /\ RanPastTimeout) => outcome.kind = "Timeout")
    /\ [][(pc = "L260" /\ ret = None) => pc' \in {"L260", "L261", "aborted"}]_vars

\* C2: in both wait modes, a tester that exits with code 0 before the timeout
\* is never sent interrupt(), and its pairing's row is Success with a
\* duration.
C2_SuccessBeforeTimeout ==
    (TesterLive /\ ExitedBefore(0)) =>
        /\ tester_proc.interrupts = 0
        /\ ~timeout
        /\ PairingDone => outcome.kind = "Success" /\ outcome.dur = <<duration>>

C2_Witness ==
    /\ PairingDone
    /\ progress
    /\ ExitedBefore(0)
    /\ ExitElapsed > 0
    /\ outcome.kind = "Success"

\* C3: in both wait modes, a tester that exits with a non-zero code before
\* the timeout yields the outcome Error.
C3_ErrorBeforeTimeout ==
    (TesterLive /\ ExitedBefore(1)) =>
        /\ ~timeout
        /\ PairingDone => outcome.kind = "Error"

C3_Witness ==
    /\ PairingDone
    /\ ~progress
    /\ ExitedBefore(1)
    /\ outcome.kind = "Error"

\* C4: when a pairing's row is printed, neither its server nor its tester is
\* still running.
C4_Claim ==
    PairingDone =>
        /\ server_proc.state # "running"
        /\ tester_proc.state # "running"

\* C5: within a pairing the server is started and seen ready before the
\* tester is started, the tester's exit or timeout is established before the
\* server's teardown begins, the server's interrupt() comes before its
\* kill(), and no step happens twice.
C5_Ordering ==
    /\ Before("server_start", "server_ready")
    /\ Before("server_ready", "tester_start")
    /\ \A j \in 1..Len(log) :
          log[j] = "server_interrupt" =>
              \E i \in 1..(j - 1) : log[i] \in {"tester_done", "tester_timeout"}
    /\ Before("tester_start", "tester_done")
    /\ Before("tester_start", "tester_timeout")
    /\ Before("server_interrupt", "server_wait")
    /\ Before("server_interrupt", "server_kill")
    /\ Before("server_wait", "server_kill")
    /\ Once
    /\ HasEvent("tester_start") => server_proc.state # "none"

C5_Witness ==
    /\ PairingDone
    /\ log = <<"server_start", "server_ready", "tester_start", "tester_timeout",
               "server_interrupt", "server_wait", "server_kill", "row">>

\* C6: every pairing of the variant list gets exactly one row: no failure
\* of a spawn ends the run before the last pairing's row.
C6_Claim ==
    /\ pc = "L232" => rows = vi
    /\ (pc \in {"done", "aborted"} /\ raised # "KeyboardInterrupt") =>
           rows = NumVariants

\* C7: however the tester wait ended, the server is sent interrupt(), then
\* waited on for at most the grace period, then killed; and the orchestrator
\* is never blocked in the teardown.
C7_Teardown ==
    /\ pc = "L265w" =>
          /\ deadline # None
          /\ slept <= GraceTicks
          /\ now + (GraceTicks - slept) = deadline[1]
    /\ pc \in {"L264", "L265", "L265w", "L266"} => ENABLED Orchestrator
    /\ pc \in {"L267", "L273", "L273w", "L273r"} \/ PairingDone =>
          /\ server_proc.interrupts = 1
          /\ server_proc.kills = 1
          /\ \E i \in 1..Len(log) :
                /\ log[i] \in {"tester_done", "tester_timeout"}
                /\ i + 3 <= Len(log)
                /\ log[i + 1] = "server_interrupt"
                /\ log[i + 2] = "server_wait"
                /\ log[i + 3] = "server_kill"

C7_Witness ==
    /\ pc = "L266"
    /\ slept = GraceTicks
    /\ server_proc.state = "running"
    /\ server_proc.interrupts = 1
    /\ HasEvent("tester_done")
    /\ tester_proc.code = 1

\* C8: when a failure of the tester's spawn leaves main() after the server
\* was spawned, the server has been sent interrupt() and kill().
C8_Claim ==
    (pc = "aborted" /\ raised = "SpawnFailure" /\ HasEvent("server_start")) =>
        /\ server_proc.interrupts > 0
        /\ server_proc.kills > 0

\* C9: a pairing that ends as Timeout has issued the final wait() with no
\* timeout on its tester.
C9_Claim ==
    (PairingDone /\ outcome.kind = "Timeout") => HasEvent("tester_reap")

\* C10: the tester is never spawned before the readiness predicate has
\* returned true, and a readiness wait in which it never does comes to an
\* end.
C10_Claim ==
    /\ [](HasEvent("tester_start") => HasEvent("server_ready"))
    /\ (pc = "L234w") ~> (server_is_up \/ pc # "L234w")

\* the lines of the tester wait (step 3 of a pairing)
Step3Pcs == {"L242", "L242w", "L242r", "L243", "L245", "L246",
             "L259", "L259w", "L259r", "L260", "L261"}

\* C11: when the operator's interrupt ends the program during the tester
\* wait, the server of the pairing in flight has been sent interrupt() or
\* kill().
C11_Claim ==
    [][(pc \in Step3Pcs /\ raised' = "KeyboardInterrupt") =>
           (server_proc'.interrupts > 0 \/ server_proc'.kills > 0)]_vars

\* C12: a process that has exited stays exited with the same status for as
\* long as its handle is bound; the status the tester wait observed and the
\* status the final wait() returns are both that status.
C12_ExitStatusStable ==
    /\ [][(tester_proc.state = "exited" /\ pc # "L237") =>
              /\ tester_proc'.state = "exited"
              /\ tester_proc'.code = tester_proc.code]_vars
    /\ [][(server_proc.state = "exited" /\ pc # "L234") =>
              /\ server_proc'.state = "exited"
              /\ server_proc'.code = server_proc.code]_vars
    /\ []((pc = "L263" /\ ~timeout) =>
              tester_proc.state = "exited" /\ ret = <<tester_proc.code>>)
    /\ [](pc = "L273r" =>
              tester_proc.state = "exited" /\ ret = <<tester_proc.code>>)

C12_Witness ==
    /\ pc = "L273r"
    /\ ret = <<1>>
    /\ server_proc.code = -9
    /\ HasEvent("tester_done")

\* C13: the only wait with no timeout is the final wait() on the tester, and
\* it is made only on a tester already seen exited; at every line but the
\* readiness wait the orchestrator has a step to take.
C13_OnlyReapUnbounded ==
    /\ (pc \in WaitPcs /\ deadline = None) => pc = "L273w"
    /\ pc \in (WaitPcs \ {"L273w"}) => deadline # None
    /\ pc \in {"L273", "L273w"} =>
          /\ tester_proc.state = "exited"
          /\ HasEvent("tester_done")
    /\ pc = "L273w" => slept = 0
    /\ pc \notin {"L234w", "done", "aborted"} => ENABLED Orchestrator

C13_Witness ==
    /\ pc = "L273w"
    /\ deadline = None
    /\ progress
    /\ tester_proc.code = 1

\* C14: kill() is sent to the server only while it is still running.
C14_Claim ==
    [][server_proc'.kills > server_proc.kills =>
           server_proc.state = "running"]_vars

\* C15: start_time is read after the server's readiness wait has returned
\* and at the tester's spawn, duration is read when the tester wait has
\* ended and before the teardown: the ticks of the readiness wait and of the
\* teardown are not in it, and a Success row's duration is the tester's run
\* time to within one polling interval.
C15_DurationIsTesterPhase ==
    /\ pc \in {"L237", "L239"} => start_time = now
    /\ pc = "L237" => HasEvent("server_ready") /\ ~HasEvent("tester_start")
    /\ pc = "L264" =>
          /\ duration = now - start_time
          /\ ~HasEvent("server_interrupt")
    /\ pc \in {"L265w", "L266", "L267"} => duration = now - slept - start_time
    /\ (PairingDone /\ outcome.kind = "Success") =>
          /\ outcome.dur = <<duration>>
          /\ duration - ExitElapsed \in {0, 1}

C15_Witness ==
    /\ PairingDone
    /\ outcome.kind = "Success"
    /\ start_time > 0
    /\ duration > 0
    /\ now = start_time + duration + GraceTicks

\* C16: a tester's exit is seen by the first poll after it, and the wait
\* loop is left at once: it goes on only after a wait that returned None.
C16_ExitSeenAtNextPoll ==
    /\ (pc \in {"L242w", "L259w"} /\ tester_proc.state = "exited") =>
          now - tester_proc.exitAt <= 1
    /\ (pc = "L263" /\ HasEvent("tester_done")) =>
          /\ tester_proc.state = "exited"
          /\ now - tester_proc.exitAt <= 1
    /\ pc \in {"L243", "L245", "L246", "L261"} => ret = None

C16_Witness ==
    /\ pc = "L263"
    /\ progress
    /\ HasEvent("tester_done")
    /\ ExitElapsed > 0
    /\ ExitElapsed < TimeoutTicks

\* C17: a tester still running at the timeout is sent interrupt() no later
\* than one polling interval after it, in both modes, and the wait phase
\* ends at an elapsed time within one polling interval of the timeout.
C17_TimeoutLatency ==
    /\ (pc \in Step3Pcs /\ tester_proc.state = "running") =>
          now - start_time <= TimeoutTicks + 1
    /\ pc \in {"L246", "L261"} =>
          /\ now - start_time >= TimeoutTicks
          /\ now - start_time <= TimeoutTicks + 1
    /\ (timeout /\ pc = "L263") =>
          /\ tester_proc.interrupts = 1
          /\ now - start_time >= TimeoutTicks
          /\ now - start_time <= TimeoutTicks + 1
    /\ (timeout /\ pc \in {"L264", "L265", "L265w", "L266", "L267"}) =>
          /\ duration >= TimeoutTicks
          /\ duration <= TimeoutTicks + 1

C17_Witness ==
    /\ pc = "L264"
    /\ timeout
    /\ progress
    /\ duration = TimeoutTicks + 1
    /\ tester_proc.state = "running"

\* C18: the tester is sent interrupt() exactly when its pairing is a
\* Timeout, at most once, only after a wait or poll that returned None, and
\* it is never sent kill().
C18_TesterSignals ==
    /\ tester_proc.kills = 0
    /\ tester_proc.interrupts <= 1
    /\ TesterLive => (tester_proc.interrupts = 1 <=> timeout)
    /\ PairingDone => (tester_proc.interrupts = 1 <=> outcome.kind = "Timeout")
    /\ pc \in {"L246", "L261"} => ret = None /\ tester_proc.interrupts = 0

C18_Witness ==
    /\ PairingDone
    /\ outcome.kind = "Timeout"
    /\ tester_proc.interrupts = 1
    /\ tester_proc.state = "exited"

\* the outcome class of an exit code
Class(c) == IF c = 0 THEN "Success" ELSE "Error"

\* the outcome classes the silent mode gives a tester by its exit tick and
\* code: its own class for an exit before the timeout, Timeout for a later
\* exit or none, either for an exit in the tick of the timeout
SilentKinds ==
    IF tester_proc.state = "exited" /\ ExitElapsed < TimeoutTicks
    THEN {Class(tester_proc.code)}
    ELSE IF tester_proc.state = "exited" /\ ExitElapsed = TimeoutTicks
    THEN {Class(tester_proc.code), "Timeout"}
    ELSE {"Timeout"}

\* C19: with or without --progress a tester of the same exit tick and code
\* gets the outcome class the silent mode gives it, and the same signals:
\* interrupt() to the tester exactly for a Timeout, interrupt() and kill()
\* to the server.
C19_Claim ==
    PairingDone =>
        /\ outcome.kind \in SilentKinds
        /\ tester_proc.interrupts = (IF outcome.kind = "Timeout" THEN 1 ELSE 0)
        /\ tester_proc.kills = 0
        /\ server_proc.interrupts = 1
        /\ server_proc.kills = 1

\* C20: when a pairing's server is about to be spawned, no server and no
\* tester of an earlier pairing is still running.
C20_Claim ==
    pc = "L234" =>
        /\ server_proc.state # "running"
        /\ tester_proc.state # "running"
        /\ orphans = 0

=============================================================================
